---- MODULE Spec2Model ----
(***************************************************************************)
(* A model of the quarthex/raytracer rendering core:                       *)
(*   - the fan-out / fan-in render pipeline of main (src/src/main.rs),     *)
(*   - Sphere::hit and HittableList::hit,                                  *)
(*   - ray_color's depth-bounded recursion,                                *)
(*   - the scene-description Material wrapper and the Metal / Dielectric   *)
(*     scatter laws.                                                       *)
(* Floating point values are modelled by exact rationals <<num, den>>;     *)
(* the inputs are drawn from sets on which every square root the code      *)
(* takes is rational, so the arithmetic below is the code's arithmetic     *)
(* without rounding.                                                       *)
(***************************************************************************)
EXTENDS Integers, Sequences, FiniteSets, TLC

\* ------------------------------------------------------------------ bounds
MaxHeight == 4
MaxWidth == 2
MaxCpus == 3

VARIABLES
    \* ---- render pipeline (main) ----
    image_height,   \* H
    image_width,    \* W
    num_cpus,       \* N
    wstate,         \* worker n's thread: "running", "exited" or "panicked"
    wrow,           \* worker n's position in its row iterator (1-based)
    wcol,           \* worker n's column i in the current row
    chan,           \* worker n's channel: the colours sent and not yet received
    sent,           \* history: every colour worker n has sent, in order
    cpc,            \* main: "collect", "save", "done" or "error"
    cj,             \* main: the collector's row j
    ci,             \* main: pixels received in row j so far
    image_data,     \* main: the output buffer, a sequence of bytes
    file,           \* the image file: [exists, data]
    \* ---- surface intersection (Sphere::hit, HittableList::hit) ----
    h_ray,          \* the ray: [origin, direction]
    h_tmin,         \* t_min
    h_tmax,         \* t_max
    h_world,        \* the composite list's objects, in order
    h_call,         \* the last call made: "none", "sphere" or "list"
    h_idx,          \* the member Sphere::hit was called on
    h_rec,          \* what the last call returned
    new_front_face, \* front_face of a record fresh from HitRecord::new
    \* ---- ray_color ----
    max_depth,      \* the depth of the outermost call
    rc_stack,       \* the active calls, outermost first: [depth, attenuation]
    rc_hits,        \* scene hit tests made so far
    rc_ret,         \* the colour the last finished call returned
    rc_pc,          \* "call", "return" or "done"
    \* ---- material scattering ----
    m_ray,          \* the incoming ray
    m_obj,          \* the scene's object
    m_rec,          \* the record world.hit returned
    m_out,          \* what scatter did
    m_pc            \* "start", "hit", "miss" or "scattered"

renderVars == <<image_height, image_width, num_cpus, wstate, wrow, wcol, chan,
                sent, cpc, cj, ci, image_data, file>>

hitVars == <<h_ray, h_tmin, h_tmax, h_world, h_call, h_idx, h_rec, new_front_face>>

colorVars == <<max_depth, rc_stack, rc_hits, rc_ret, rc_pc>>

matVars == <<m_ray, m_obj, m_rec, m_out, m_pc>>

vars == <<renderVars, hitVars, colorVars, matVars>>

\* ============================================================== rationals
\* An f64 is modelled by an exact rational <<num, den>> in lowest terms with
\* den > 0; +infinity is <<1, 0>>, which the comparisons below order above
\* every rational.
RECURSIVE GCD(_, _)
GCD(a, b) == IF b = 0 THEN a ELSE GCD(b, a % b)

Abs(x) == IF x < 0 THEN -x ELSE x

Norm(n, d) ==
    LET sn == IF d < 0 THEN -n ELSE n
        sd == Abs(d)
        g == GCD(Abs(sn), sd)
    IN  <<sn \div g, sd \div g>>

R(i) == <<i, 1>>
RAdd(x, y) == Norm(x[1] * y[2] + y[1] * x[2], x[2] * y[2])
RNeg(x) == <<-x[1], x[2]>>
RSub(x, y) == RAdd(x, RNeg(y))
RMul(x, y) == Norm(x[1] * y[1], x[2] * y[2])
RDiv(x, y) == Norm(x[1] * y[2], x[2] * y[1])
RLt(x, y) == x[1] * y[2] < y[1] * x[2]
RLe(x, y) == x[1] * y[2] <= y[1] * x[2]
RMin(x, y) == IF RLt(y, x) THEN y ELSE x

IsSquare(n) == \E q \in 0 .. n : q * q = n
Isqrt(n) == CHOOSE q \in 0 .. n : q * q = n
\* f64::sqrt, on the rationals whose root is rational
RSqrt(x) == <<Isqrt(x[1]), Isqrt(x[2])>>
HasRSqrt(x) == x[1] >= 0 /\ IsSquare(x[1]) /\ IsSquare(x[2])

\* rtweekend::INFINITY
INFINITY == <<1, 0>>

\* Vec3 / Point3
V(x, y, z) == <<R(x), R(y), R(z)>>
VAdd(u, v) == <<RAdd(u[1], v[1]), RAdd(u[2], v[2]), RAdd(u[3], v[3])>>
VSub(u, v) == <<RSub(u[1], v[1]), RSub(u[2], v[2]), RSub(u[3], v[3])>>
VNeg(u) == <<RNeg(u[1]), RNeg(u[2]), RNeg(u[3])>>
VScale(k, u) == <<RMul(k, u[1]), RMul(k, u[2]), RMul(k, u[3])>>
VDiv(u, k) == <<RDiv(u[1], k), RDiv(u[2], k), RDiv(u[3], k)>>
Dot(u, v) == RAdd(RAdd(RMul(u[1], v[1]), RMul(u[2], v[2])), RMul(u[3], v[3]))
LengthSquared(u) == Dot(u, u)
\* Ray::at
At(r, t) == VAdd(r.origin, VScale(t, r.direction))

\* ================================================================ surfaces
NoHit == [hit |-> FALSE]

\* HitRecord::new(p, normal, material, t); front_face is not among its
\* arguments, so a fresh record holds the constructor's fixed default.
HitRecordNew(p, normal, material, t) ==
    [hit |-> TRUE, p |-> p, normal |-> normal, material |-> material, t |-> t,
     front_face |-> new_front_face]

\* HitRecord::set_face_normal(r, outward_normal)
SetFaceNormal(rec, r, outward_normal) ==
    LET ff == RLt(Dot(r.direction, outward_normal), R(0))
    IN  [rec EXCEPT !.front_face = ff,
                    !.normal = IF ff THEN outward_normal ELSE VNeg(outward_normal)]

Discriminant(s, r) ==
    LET oc == VSub(r.origin, s.center)
        a == LengthSquared(r.direction)
        half_b == Dot(oc, r.direction)
        c == RSub(LengthSquared(oc), RMul(s.radius, s.radius))
    IN  RSub(RMul(half_b, half_b), RMul(a, c))

\* (-half_b - sqrtd) / a
SmallRoot(s, r) ==
    LET oc == VSub(r.origin, s.center)
        a == LengthSquared(r.direction)
        half_b == Dot(oc, r.direction)
    IN  RDiv(RSub(RNeg(half_b), RSqrt(Discriminant(s, r))), a)

\* (-half_b + sqrtd) / a
LargeRoot(s, r) ==
    LET oc == VSub(r.origin, s.center)
        a == LengthSquared(r.direction)
        half_b == Dot(oc, r.direction)
    IN  RDiv(RAdd(RNeg(half_b), RSqrt(Discriminant(s, r))), a)

OutOfRangeExclusive(root, t_min, t_max) == RLt(root, t_min) \/ RLe(t_max, root)

\* root < t_min || t_max < root
OutOfRange(root, t_min, t_max) == RLt(root, t_min) \/ RLt(t_max, root)

SphereRecord(s, r, t) ==
    LET p == At(r, t)
        rec == HitRecordNew(p, VDiv(VSub(p, s.center), s.radius), s.material, t)
        outward_normal == VDiv(VSub(rec.p, s.center), s.radius)
    IN  SetFaceNormal(rec, r, outward_normal)

SphereHitLargeFirst(s, r, t_min, t_max) ==
    IF RLt(Discriminant(s, r), R(0)) THEN NoHit
    ELSE IF ~OutOfRange(LargeRoot(s, r), t_min, t_max)
         THEN SphereRecord(s, r, LargeRoot(s, r))
    ELSE IF ~OutOfRange(SmallRoot(s, r), t_min, t_max)
         THEN SphereRecord(s, r, SmallRoot(s, r))
    ELSE NoHit

\* Sphere::hit
SphereHit(s, r, t_min, t_max) ==
    IF RLt(Discriminant(s, r), R(0)) THEN NoHit
    ELSE IF ~OutOfRange(SmallRoot(s, r), t_min, t_max)
         THEN SphereRecord(s, r, SmallRoot(s, r))
    ELSE IF ~OutOfRange(LargeRoot(s, r), t_min, t_max)
         THEN SphereRecord(s, r, LargeRoot(s, r))
    ELSE NoHit

\* Object::hit, the Sphere arm
ObjectHit(o, r, t_min, t_max) == SphereHit(o, r, t_min, t_max)

\* The loop of HittableList::hit over objects[k..], with its two locals.
RECURSIVE ListHitFrom(_, _, _, _, _, _)
ListHitFrom(objects, k, r, t_min, closest_so_far, temp_rec) ==
    IF k > Len(objects) THEN temp_rec
    ELSE LET rec == ObjectHit(objects[k], r, t_min, closest_so_far)
         IN  IF rec.hit
             THEN ListHitFrom(objects, k + 1, r, t_min, rec.t, rec)
             ELSE ListHitFrom(objects, k + 1, r, t_min, closest_so_far, temp_rec)

RECURSIVE ListHitNoNarrowFrom(_, _, _, _, _, _)
ListHitNoNarrowFrom(objects, k, r, t_min, t_max, temp_rec) ==
    IF k > Len(objects) THEN temp_rec
    ELSE LET rec == ObjectHit(objects[k], r, t_min, t_max)
         IN  IF rec.hit
             THEN ListHitNoNarrowFrom(objects, k + 1, r, t_min, t_max, rec)
             ELSE ListHitNoNarrowFrom(objects, k + 1, r, t_min, t_max, temp_rec)

HittableListHitNoNarrow(objects, r, t_min, t_max) ==
    ListHitNoNarrowFrom(objects, 1, r, t_min, t_max, NoHit)

\* HittableList::hit
HittableListHit(objects, r, t_min, t_max) ==
    ListHitFrom(objects, 1, r, t_min, t_max, NoHit)

\* ================================================================= render
Workers == 0 .. (num_cpus - 1)

\* (0..image_height).filter(|j| j % num_cpus == n).rev(), from row j downwards
RECURSIVE RowsFrom(_, _)
RowsFrom(j, n) ==
    IF j < 0 THEN <<>>
    ELSE IF j % num_cpus = n THEN <<j>> \o RowsFrom(j - 1, n)
    ELSE RowsFrom(j - 1, n)

AssignedRowsNoRev(n) ==
    LET r == RowsFrom(image_height - 1, n)
    IN  [k \in 1 .. Len(r) |-> r[Len(r) + 1 - k]]

AssignedRowsShifted(n) == RowsFrom(image_height - 1, (n + 1) % num_cpus)

AssignedRows(n) == RowsFrom(image_height - 1, n)

\* The colour worker n computes for pixel (row j, column i).  The three bytes
\* stand for the clamped (r, g, b); they carry the pixel's identity so that
\* the buffer's order can be read back.
PixelColor(j, i, n) == <<j, i, n>>

\* The process lives until main returns.
MainRunning == cpc \in {"collect", "save"}

LoopExhausted(n) == wrow[n] > Len(AssignedRows(n))

\* sender dropped: the worker's closure has returned or unwound
SenderDropped(n) == wstate[n] # "running"

\* One iteration of the worker's inner loop: compute a pixel and send it.
WorkerSend(n) ==
    /\ MainRunning
    /\ wstate[n] = "running"
    /\ ~LoopExhausted(n)
    /\ LET j == AssignedRows(n)[wrow[n]]
           color == PixelColor(j, wcol[n], n)
       IN  /\ chan' = [chan EXCEPT ![n] = Append(@, color)]
           /\ sent' = [sent EXCEPT ![n] = Append(@, color)]
    /\ IF wcol[n] + 1 < image_width
       THEN /\ wcol' = [wcol EXCEPT ![n] = @ + 1]
            /\ wrow' = wrow
       ELSE /\ wcol' = [wcol EXCEPT ![n] = 0]
            /\ wrow' = [wrow EXCEPT ![n] = @ + 1]
    /\ UNCHANGED <<hitVars, colorVars, matVars,
                   image_height, image_width, num_cpus, wstate, cpc, cj, ci,
                   image_data, file>>

\* The worker's closure returns after its last row: the sender is dropped.
WorkerExit(n) ==
    /\ MainRunning
    /\ wstate[n] = "running"
    /\ LoopExhausted(n)
    /\ wstate' = [wstate EXCEPT ![n] = "exited"]
    /\ UNCHANGED <<hitVars, colorVars, matVars,
                   image_height, image_width, num_cpus, wrow, wcol, chan, sent,
                   cpc, cj, ci, image_data, file>>

\* The worker's thread panics while computing a pixel: the sender is dropped.
WorkerPanic(n) ==
    /\ MainRunning
    /\ wstate[n] = "running"
    /\ ~LoopExhausted(n)
    /\ wstate' = [wstate EXCEPT ![n] = "panicked"]
    /\ UNCHANGED <<hitVars, colorVars, matVars,
                   image_height, image_width, num_cpus, wrow, wcol, chan, sent,
                   cpc, cj, ci, image_data, file>>

\* workers[j as usize % num_cpus]
CollectorWorker == cj % num_cpus

\* worker.recv()? returning Ok: pop one colour, push its three bytes.
CollectorRecv ==
    /\ cpc = "collect"
    /\ chan[CollectorWorker] # <<>>
    /\ LET color == Head(chan[CollectorWorker])
       IN  image_data' = image_data \o <<color[1], color[2], color[3]>>
    /\ chan' = [chan EXCEPT ![CollectorWorker] = Tail(@)]
    /\ IF ci + 1 < image_width
       THEN /\ ci' = ci + 1
            /\ cj' = cj
            /\ cpc' = cpc
       ELSE /\ ci' = 0
            /\ cj' = cj - 1
            /\ cpc' = IF cj - 1 < 0 THEN "save" ELSE "collect"
    /\ UNCHANGED <<hitVars, colorVars, matVars,
                   image_height, image_width, num_cpus, wstate, wrow, wcol,
                   sent, file>>

CollectorRecvErrIgnored ==
    /\ cpc = "collect"
    /\ chan[CollectorWorker] = <<>>
    /\ SenderDropped(CollectorWorker)
    /\ cpc' = "save"
    /\ UNCHANGED <<hitVars, colorVars, matVars,
                   image_height, image_width, num_cpus, wstate, wrow, wcol,
                   chan, sent, cj, ci, image_data, file>>

\* worker.recv()? returning Err: the channel is empty and its sender is gone.
CollectorRecvErr ==
    /\ cpc = "collect"
    /\ chan[CollectorWorker] = <<>>
    /\ SenderDropped(CollectorWorker)
    /\ cpc' = "error"
    /\ UNCHANGED <<hitVars, colorVars, matVars,
                   image_height, image_width, num_cpus, wstate, wrow, wcol,
                   chan, sent, cj, ci, image_data, file>>

\* image::save_buffer(..)? succeeding
SaveOk ==
    /\ cpc = "save"
    /\ file' = [exists |-> TRUE, data |-> image_data]
    /\ cpc' = "done"
    /\ UNCHANGED <<hitVars, colorVars, matVars,
                   image_height, image_width, num_cpus, wstate, wrow, wcol,
                   chan, sent, cj, ci, image_data>>

\* image::save_buffer(..)? failing
SaveErr ==
    /\ cpc = "save"
    /\ cpc' = "error"
    /\ UNCHANGED <<hitVars, colorVars, matVars,
                   image_height, image_width, num_cpus, wstate, wrow, wcol,
                   chan, sent, cj, ci, image_data, file>>

\* The state once every worker is spawned and the collector is about to start.
RenderInit ==
    /\ image_width \in 0 .. MaxWidth
    /\ image_height \in 0 .. MaxHeight
    /\ (image_width = 0 => image_height = 0)
    /\ num_cpus \in 1 .. MaxCpus
    /\ wstate = [n \in Workers |-> "running"]
    /\ wrow = [n \in Workers |-> 1]
    /\ wcol = [n \in Workers |-> 0]
    /\ chan = [n \in Workers |-> <<>>]
    /\ sent = [n \in Workers |-> <<>>]
    /\ cj = image_height - 1
    /\ ci = 0
    /\ cpc = IF image_height = 0 \/ image_width = 0 THEN "save" ELSE "collect"
    /\ image_data = <<>>
    /\ file = [exists |-> FALSE, data |-> <<>>]

\* The parts of the state a specification does not exercise stay as they are
\* before anything is called.
HitIdle ==
    /\ h_ray = [origin |-> V(0, 0, 0), direction |-> V(0, 0, 1)]
    /\ h_tmin = R(0)
    /\ h_tmax = INFINITY
    /\ h_world = <<>>
    /\ h_call = "none"
    /\ h_idx = 0
    /\ h_rec = NoHit
    /\ new_front_face = FALSE

ColorIdle ==
    /\ max_depth = 0
    /\ rc_stack = <<>>
    /\ rc_hits = 0
    /\ rc_ret = <<R(0), R(0), R(0)>>
    /\ rc_pc = "done"

MatIdle ==
    /\ m_ray = [origin |-> V(0, 0, 0), direction |-> V(0, 0, 1)]
    /\ m_obj = [center |-> V(0, 0, 0), radius |-> R(1), material |-> [kind |-> "none"]]
    /\ m_rec = NoHit
    /\ m_out = [kind |-> "none"]
    /\ m_pc = "start"

RenderIdle ==
    /\ image_width = 0
    /\ image_height = 0
    /\ num_cpus = 1
    /\ wstate = [n \in {0} |-> "running"]
    /\ wrow = [n \in {0} |-> 1]
    /\ wcol = [n \in {0} |-> 0]
    /\ chan = [n \in {0} |-> <<>>]
    /\ sent = [n \in {0} |-> <<>>]
    /\ cj = -1
    /\ ci = 0
    /\ cpc = "save"
    /\ image_data = <<>>
    /\ file = [exists |-> FALSE, data |-> <<>>]

Init == RenderInit /\ HitIdle /\ ColorIdle /\ MatIdle

\* A step of a worker thread that is still running its closure.
WorkerNext ==
    \E n \in Workers : WorkerSend(n) \/ WorkerExit(n)

CollectorNext ==
    CollectorRecv \/ CollectorRecvErr \/ SaveOk \/ SaveErr

Next ==
    \/ (\E n \in Workers : WorkerSend(n))
    \/ (\E n \in Workers : WorkerExit(n))
    \/ (\E n \in Workers : WorkerPanic(n))
    \/ CollectorNext

Spec == Init /\ [][Next]_vars

\* The render under fair scheduling of the threads; a worker may fail.
FailSpec == Init /\ [][Next]_vars /\ WF_vars(WorkerNext) /\ WF_vars(CollectorNext)

\* ========================================================= surface calls
MaxObjs == 2
TRange == 10

\* The objects a scene is drawn from: spheres in front of, around and beside
\* the rays below, two of them with the same geometry and different materials.
SceneObjects ==
    { [center |-> V(0, 0, 3), radius |-> R(1), material |-> "red"],
      [center |-> V(0, 0, 3), radius |-> R(1), material |-> "blue"],
      [center |-> V(0, 0, 4), radius |-> R(2), material |-> "blue"],
      [center |-> V(0, 0, 1), radius |-> R(2), material |-> "red"],
      [center |-> V(3, 0, 5), radius |-> R(5), material |-> "blue"],
      [center |-> V(6, 0, 3), radius |-> R(1), material |-> "red"] }

Rays ==
    { [origin |-> V(0, 0, 0), direction |-> V(0, 0, 1)],
      [origin |-> V(0, 0, 0), direction |-> V(0, 0, 2)],
      [origin |-> V(0, 0, 0), direction |-> V(0, 0, -1)] }

Intervals ==
    { <<<<1, 1000>>, INFINITY>>, <<R(2), R(5)>>, <<R(0), R(2)>>,
      <<R(3), INFINITY>> }

\* Every square root Sphere::hit takes on these inputs is rational.
ExactFor(s, r) ==
    RLt(Discriminant(s, r), R(0)) \/ HasRSqrt(Discriminant(s, r))

HitInit ==
    /\ h_ray \in Rays
    /\ \E iv \in Intervals : h_tmin = iv[1] /\ h_tmax = iv[2]
    /\ h_world \in UNION {[1 .. n -> SceneObjects] : n \in 0 .. MaxObjs}
    /\ \A k \in 1 .. Len(h_world) : ExactFor(h_world[k], h_ray)
    /\ h_call = "none"
    /\ h_idx = 0
    /\ h_rec = NoHit
    /\ new_front_face = FALSE

\* A call of Sphere::hit on member k.
CallSphereHit(k) ==
    /\ h_call = "none"
    /\ h_rec' = SphereHit(h_world[k], h_ray, h_tmin, h_tmax)
    /\ h_idx' = k
    /\ h_call' = "sphere"
    /\ UNCHANGED <<renderVars, colorVars, matVars, h_ray, h_tmin, h_tmax,
                   h_world, new_front_face>>

\* A call of HittableList::hit on the whole list.
CallListHit ==
    /\ h_call = "none"
    /\ h_rec' = HittableListHit(h_world, h_ray, h_tmin, h_tmax)
    /\ h_call' = "list"
    /\ UNCHANGED <<renderVars, colorVars, matVars, h_ray, h_tmin, h_tmax,
                   h_world, h_idx, new_front_face>>

HitNext ==
    \/ (\E k \in 1 .. Len(h_world) : CallSphereHit(k))
    \/ CallListHit

HitSpecInit == RenderIdle /\ HitInit /\ ColorIdle /\ MatIdle

HitSpec == HitSpecInit /\ [][HitNext]_vars

\* =============================================================== ray_color
MaxDepth == 3

Black == <<R(0), R(0), R(0)>>
White == <<R(1), R(1), R(1)>>

ColorMul(c, a) == <<RMul(c[1], a[1]), RMul(c[2], a[2]), RMul(c[3], a[3])>>
ColorAdd(c, a) == <<RAdd(c[1], a[1]), RAdd(c[2], a[2]), RAdd(c[3], a[3])>>
ColorScale(k, c) == <<RMul(k, c[1]), RMul(k, c[2]), RMul(k, c[3])>>

\* The sky gradient for a ray whose unit direction has the given y.
SkyColor(unit_y) ==
    LET t == RMul(<<1, 2>>, RAdd(unit_y, R(1)))
    IN  ColorAdd(ColorScale(RSub(R(1), t), White),
                 ColorScale(t, <<<<1, 2>>, <<7, 10>>, R(1)>>))

\* The y of the unit directions of the rays that miss the scene.
SkyYs == {R(-1), R(0), R(1)}

\* The attenuations a scatter may return.
Attenuations == {White, <<<<1, 2>>, <<1, 2>>, <<1, 2>>>>, <<<<4, 5>>, <<3, 5>>, <<1, 5>>>>}

SkyColors == {SkyColor(y) : y \in SkyYs}

NextDepthSame(depth) == depth

\* the depth argument of the recursive call
NextDepth(depth) == depth - 1

Top == rc_stack[Len(rc_stack)]

\* depth == 0: return black, the scene is not tested.
RayColorBase ==
    /\ rc_pc = "call"
    /\ Top.depth = 0
    /\ rc_ret' = Black
    /\ rc_pc' = "return"
    /\ UNCHANGED <<renderVars, hitVars, matVars, max_depth, rc_stack, rc_hits>>

\* world.hit returns None: the sky gradient.
RayColorMiss ==
    /\ rc_pc = "call"
    /\ Top.depth # 0
    /\ rc_hits' = rc_hits + 1
    /\ rc_ret' \in SkyColors
    /\ rc_pc' = "return"
    /\ UNCHANGED <<renderVars, hitVars, matVars, max_depth, rc_stack>>

\* world.hit returns a record and scatter returns None: black.
RayColorAbsorbed ==
    /\ rc_pc = "call"
    /\ Top.depth # 0
    /\ rc_hits' = rc_hits + 1
    /\ rc_ret' = Black
    /\ rc_pc' = "return"
    /\ UNCHANGED <<renderVars, hitVars, matVars, max_depth, rc_stack>>

\* world.hit returns a record and scatter a ray and an attenuation: recurse.
RayColorScattered ==
    /\ rc_pc = "call"
    /\ Top.depth # 0
    /\ rc_hits' = rc_hits + 1
    /\ \E a \in Attenuations :
          rc_stack' = [rc_stack EXCEPT ![Len(rc_stack)] =
                          [depth |-> Top.depth, attenuation |-> a]]
                      \o <<[depth |-> NextDepth(Top.depth)]>>
    /\ UNCHANGED <<renderVars, hitVars, matVars, max_depth, rc_ret, rc_pc>>

\* The innermost call returns rc_ret; its caller multiplies it by the
\* attenuation and returns in turn.
RayColorReturn ==
    /\ rc_pc = "return"
    /\ rc_stack' = SubSeq(rc_stack, 1, Len(rc_stack) - 1)
    /\ IF Len(rc_stack) = 1
       THEN /\ rc_pc' = "done"
            /\ rc_ret' = rc_ret
       ELSE /\ rc_pc' = "return"
            /\ rc_ret' = ColorMul(rc_ret, rc_stack[Len(rc_stack) - 1].attenuation)
    /\ UNCHANGED <<renderVars, hitVars, matVars, max_depth, rc_hits>>

ColorInit ==
    /\ max_depth \in 0 .. MaxDepth
    /\ rc_stack = <<[depth |-> max_depth]>>
    /\ rc_hits = 0
    /\ rc_ret = Black
    /\ rc_pc = "call"

ColorNext ==
    \/ RayColorBase
    \/ RayColorMiss
    \/ RayColorAbsorbed
    \/ RayColorScattered
    \/ RayColorReturn

\* A call of ray_color runs on its thread until it returns.
ColorSpecInit == RenderIdle /\ HitIdle /\ ColorInit /\ MatIdle

ColorSpec == ColorSpecInit /\ [][ColorNext]_vars /\ WF_vars(ColorNext)

\* ================================================================ scatter
RECURSIVE RPow(_, _)
RPow(x, n) == IF n = 0 THEN R(1) ELSE RMul(x, RPow(x, n - 1))

\* vec3::unit_vector
UnitVector(v) == VDiv(v, RSqrt(LengthSquared(v)))

\* Metal::new: fuzz.min(1.0)
MetalNew(albedo, fuzz) == [albedo |-> albedo, fuzz |-> RMin(fuzz, R(1))]

\* Dielectric::reflectance
Reflectance(cosine, ref_idx) ==
    LET r0 == RPow(RDiv(RSub(R(1), ref_idx), RAdd(R(1), ref_idx)), 2)
    IN  RAdd(r0, RMul(RAdd(R(1), r0), RPow(RSub(R(1), cosine), 5)))

\* Dielectric::scatter, up to the choice between reflect and refract
DielectricScatter(ir, r_in, rec, draw) ==
    LET refraction_ratio == IF rec.front_face THEN RDiv(R(1), ir) ELSE ir
        unit_direction == UnitVector(r_in.direction)
        cos_theta == RMin(Dot(VNeg(unit_direction), rec.normal), R(1))
        sin_theta == RSqrt(RSub(R(1), RMul(cos_theta, cos_theta)))
        cannot_refract == RLt(R(1), RMul(refraction_ratio, sin_theta))
        reflectance == Reflectance(cos_theta, refraction_ratio)
    IN  [kind |-> IF cannot_refract \/ RLt(draw, reflectance)
                  THEN "reflect" ELSE "refract",
         attenuation |-> White,
         refraction_ratio |-> refraction_ratio,
         cos_theta |-> cos_theta,
         sin_theta |-> sin_theta,
         cannot_refract |-> cannot_refract,
         reflectance |-> reflectance,
         draw |-> draw]

\* Metal::scatter: the reflection perturbed by fuzz * random_in_unit_sphere()
MetalScatter(metal, r_in, rec) ==
    [kind |-> "metal", attenuation |-> metal.albedo, fuzz |-> metal.fuzz]

\* Lambertian::scatter
LambertianScatter(albedo, r_in, rec) ==
    [kind |-> "lambertian", attenuation |-> albedo]

\* impl crate::Material for Material, the Metal arm
WrapperScatterMetal(mat, r_in, rec) ==
    LET material == MetalNew(mat.albedo, mat.fuzz)
        rec2 == HitRecordNew(rec.p, rec.normal, material, rec.t)
    IN  MetalScatter(material, r_in, rec2)

\* the Lambertian arm
WrapperScatterLambertian(mat, r_in, rec) ==
    LET rec2 == HitRecordNew(rec.p, rec.normal, mat.albedo, rec.t)
    IN  LambertianScatter(mat.albedo, r_in, rec2)

\* the Dielectric arm
WrapperScatterDielectric(mat, r_in, rec, draw) ==
    LET rec2 == HitRecordNew(rec.p, rec.normal, mat.ir, rec.t)
    IN  DielectricScatter(mat.ir, r_in, rec2, draw)

MatGeometries ==
    { [center |-> V(0, 0, 3), radius |-> R(1)],
      [center |-> V(0, 0, 1), radius |-> R(2)],
      [center |-> V(3, 0, 5), radius |-> R(5)],
      [center |-> V(4, 0, 5), radius |-> R(5)],
      [center |-> V(5, 0, 3), radius |-> R(5)],
      [center |-> V(3, 0, 0), radius |-> R(5)],
      [center |-> V(4, 0, 0), radius |-> R(5)],
      [center |-> V(6, 0, 3), radius |-> R(1)] }

Fuzzes == {R(-1), R(0), <<1, 2>>, R(1), R(2)}
Irs == {<<3, 2>>, R(2), <<1, 2>>}
Albedo == <<<<4, 5>>, <<3, 5>>, <<1, 5>>>>

Materials ==
    {[kind |-> "metal", albedo |-> Albedo, fuzz |-> f] : f \in Fuzzes}
        \cup {[kind |-> "dielectric", ir |-> i] : i \in Irs}
        \cup {[kind |-> "lambertian", albedo |-> Albedo]}

MatRays ==
    { [origin |-> V(0, 0, 0), direction |-> V(0, 0, 1)],
      [origin |-> V(0, 0, 0), direction |-> V(0, 0, 2)] }

\* random_double() is in [0, 1)
Draws == {R(0), <<1, 2>>, <<99, 100>>}

MatInit ==
    /\ m_ray \in MatRays
    /\ \E g \in MatGeometries, mat \in Materials :
          m_obj = [center |-> g.center, radius |-> g.radius, material |-> mat]
    /\ ExactFor(m_obj, m_ray)
    /\ m_rec = NoHit
    /\ m_out = [kind |-> "none"]
    /\ m_pc = "start"

\* ray_color: world.hit(r, 0.001, INFINITY)
MatWorldHit ==
    /\ m_pc = "start"
    /\ m_rec' = HittableListHit(<<m_obj>>, m_ray, <<1, 1000>>, INFINITY)
    /\ m_pc' = IF m_rec'.hit THEN "hit" ELSE "miss"
    /\ UNCHANGED <<renderVars, hitVars, colorVars, m_ray, m_obj, m_out>>

\* ray_color: rec.material().scatter(r, &rec, ..), by the material's variant
ScatterMetal ==
    /\ m_pc = "hit"
    /\ m_rec.material.kind = "metal"
    /\ m_out' = WrapperScatterMetal(m_rec.material, m_ray, m_rec)
    /\ m_pc' = "scattered"
    /\ UNCHANGED <<renderVars, hitVars, colorVars, m_ray, m_obj, m_rec>>

ScatterLambertian ==
    /\ m_pc = "hit"
    /\ m_rec.material.kind = "lambertian"
    /\ m_out' = WrapperScatterLambertian(m_rec.material, m_ray, m_rec)
    /\ m_pc' = "scattered"
    /\ UNCHANGED <<renderVars, hitVars, colorVars, m_ray, m_obj, m_rec>>

ScatterDielectric ==
    /\ m_pc = "hit"
    /\ m_rec.material.kind = "dielectric"
    /\ \E draw \in Draws :
          m_out' = WrapperScatterDielectric(m_rec.material, m_ray, m_rec, draw)
    /\ m_pc' = "scattered"
    /\ UNCHANGED <<renderVars, hitVars, colorVars, m_ray, m_obj, m_rec>>

MatNext ==
    \/ MatWorldHit
    \/ ScatterMetal
    \/ ScatterLambertian
    \/ ScatterDielectric

MatHitInit ==
    /\ h_ray = [origin |-> V(0, 0, 0), direction |-> V(0, 0, 1)]
    /\ h_tmin = R(0)
    /\ h_tmax = INFINITY
    /\ h_world = <<>>
    /\ h_call = "none"
    /\ h_idx = 0
    /\ h_rec = NoHit
    /\ new_front_face \in BOOLEAN

MatSpecInit == RenderIdle /\ MatHitInit /\ ColorIdle /\ MatInit

MatSpec == MatSpecInit /\ [][MatNext]_vars

\* ================================================================= claims

\* C1: the output buffer is assembled in global image order: the k-th block
\* of W pixel triples is row j = H-1-k, columns 0..W-1 in order, each pixel
\* the one computed by worker j mod N, whatever the interleaving.
C1_GlobalImageOrder ==
    /\ Len(image_data) % 3 = 0
    /\ Len(image_data) <= 3 * image_height * image_width
    /\ \A idx \in 1 .. Len(image_data) :
          LET p == (idx - 1) \div 3
              k == p \div image_width
              i == p % image_width
              j == image_height - 1 - k
          IN  image_data[idx] = <<j, i, j % num_cpus>>[((idx - 1) % 3) + 1]

C1_Witness ==
    /\ cpc = "save"
    /\ image_height = 3 /\ image_width = 2 /\ num_cpus = 2
    /\ Len(image_data) = 18

\* The rows whose index is congruent to n modulo the worker count.
RowsOf(n) == {j \in 0 .. (image_height - 1) : j % num_cpus = n}

CollectorFinished == cpc = "save"

SomeWorkerFailed == \E n \in Workers : wstate[n] = "panicked"

RenderComplete ==
    /\ Len(image_data) = 3 * image_height * image_width
    /\ \A n \in Workers :
          /\ chan[n] = <<>>
          /\ Len(sent[n]) = image_width * Cardinality(RowsOf(n))
          /\ \A j \in 0 .. (image_height - 1) :
                Cardinality({x \in 1 .. Len(sent[n]) : sent[n][x][1] = j})
                    = IF j \in RowsOf(n) THEN image_width ELSE 0

\* C2: under fair scheduling the collector eventually finishes unless a
\* worker fails, and when it has finished it holds exactly H*W pixel
\* triples, every worker has sent exactly W pixels for each of its rows and
\* every channel is empty.
C2_RunsToCompletion ==
    /\ <>(SomeWorkerFailed \/ CollectorFinished)
    /\ [](CollectorFinished => RenderComplete)

C2_Witness ==
    /\ cpc = "done"
    /\ image_height = 3 /\ image_width = 2 /\ num_cpus = 2
    /\ \A n \in Workers : wstate[n] = "exited"

RecvFailed == cpc = "error" /\ cj >= 0

\* C10: a render produces a full image or fails: when a worker stops early
\* the collector's receive fails once that worker's channel is drained, the
\* collector then stops with a failure and never blocks forever, and the
\* image file is never written from a buffer of fewer than H*W triples.
C10_FullImageOrFailure ==
    /\ [](file.exists => Len(file.data) = 3 * image_height * image_width)
    /\ [](RecvFailed => /\ chan[CollectorWorker] = <<>>
                        /\ wstate[CollectorWorker] = "panicked"
                        /\ ~file.exists)
    /\ [](cpc = "collect" /\ chan[CollectorWorker] = <<>>
            /\ wstate[CollectorWorker] = "panicked" => ENABLED CollectorRecvErr)
    /\ (SomeWorkerFailed ~> RecvFailed)
    /\ <>(cpc \in {"done", "error"})

C10_Witness ==
    /\ RecvFailed
    /\ image_data # <<>>
    /\ \E n \in Workers : wstate[n] = "panicked" /\ sent[n] # <<>>

\* What member k reports on its own for the whole interval.
MemberHit(k) == SphereHit(h_world[k], h_ray, h_tmin, h_tmax)

HittingMembers == {k \in 1 .. Len(h_world) : MemberHit(k).hit}

\* C3: HittableList::hit returns None iff no member reports a hit within
\* [t_min, t_max], and otherwise a record whose t is the minimum t over the
\* members' individual hits within the interval.
C3_CompositeNearestHit ==
    h_call = "list" =>
        /\ h_rec.hit <=> HittingMembers # {}
        /\ h_rec.hit =>
              /\ \E k \in HittingMembers : MemberHit(k).t = h_rec.t
              /\ \A k \in HittingMembers : RLe(h_rec.t, MemberHit(k).t)

C3_Witness ==
    /\ h_call = "list"
    /\ h_rec.hit
    /\ \E i, k \in HittingMembers :
          /\ i < k
          /\ RLt(MemberHit(i).t, MemberHit(k).t)
          /\ h_rec.t = MemberHit(i).t

IndexPermutations(n) == {f \in [1 .. n -> 1 .. n] : \A a, b \in 1 .. n : f[a] = f[b] => a = b}

Permuted(f) == [k \in 1 .. Len(h_world) |-> h_world[f[k]]]

HitOfPermutation(f) == HittableListHit(Permuted(f), h_ray, h_tmin, h_tmax)

\* The members whose own hit is at the returned (nearest) t.
NearestMembers == {k \in HittingMembers : MemberHit(k).t = h_rec.t}

LastOf(S) == CHOOSE k \in S : \A m \in S : m <= k

\* C4 as stated: every permutation of the members yields the same returned
\* record (t, point, normal and material), ties in t included.
C4_OrderIrrelevant ==
    h_call = "list" =>
        \A f \in IndexPermutations(Len(h_world)) : HitOfPermutation(f) = h_rec

\* C4 as amended: every permutation yields the same t and point; the whole
\* record is the same whenever the members hitting at the nearest t report
\* one and the same record, and among members tied at the nearest t the
\* record returned is that of the last one in list order.
C4_OrderIrrelevantUpToTies ==
    h_call = "list" =>
        /\ \A f \in IndexPermutations(Len(h_world)) :
              LET q == HitOfPermutation(f)
              IN  /\ q.hit = h_rec.hit
                  /\ q.hit => q.t = h_rec.t /\ q.p = h_rec.p
                  /\ Cardinality({MemberHit(k) : k \in NearestMembers}) <= 1
                        => q = h_rec
        /\ h_rec.hit => h_rec = MemberHit(LastOf(NearestMembers))

C4_Witness ==
    /\ h_call = "list"
    /\ h_rec.hit
    /\ Cardinality(NearestMembers) >= 2
    /\ Cardinality({MemberHit(k) : k \in NearestMembers}) >= 2

\* The parameters at which the ray meets the sphere's surface, among the
\* rationals n/d with |n| <= TRange and d <= 2.
CandidateTs == {Norm(n, d) : n \in (-TRange) .. TRange, d \in 1 .. 2}

OnSphere(s, r, t) ==
    LengthSquared(VSub(At(r, t), s.center)) = RMul(s.radius, s.radius)

Intersections(s, r, t_min, t_max) ==
    {t \in CandidateTs : OnSphere(s, r, t) /\ RLe(t_min, t) /\ RLe(t, t_max)}

\* C5: Sphere::hit returns None on a negative discriminant; otherwise the
\* smaller root if it lies in [t_min, t_max], else the larger root if it
\* does, else None; so a returned t is in the interval and is the nearest
\* intersection of the ray with the sphere inside the interval.
C5_SphereRootSelection ==
    h_call = "sphere" =>
        LET s == h_world[h_idx]
            neg == RLt(Discriminant(s, h_ray), R(0))
            inRange(t) == RLe(h_tmin, t) /\ RLe(t, h_tmax)
            near == Intersections(s, h_ray, h_tmin, h_tmax)
        IN  /\ neg => ~h_rec.hit
            /\ ~neg =>
                  /\ SmallRoot(s, h_ray) \in CandidateTs
                  /\ LargeRoot(s, h_ray) \in CandidateTs
                  /\ inRange(SmallRoot(s, h_ray))
                        => h_rec.hit /\ h_rec.t = SmallRoot(s, h_ray)
                  /\ ~inRange(SmallRoot(s, h_ray)) /\ inRange(LargeRoot(s, h_ray))
                        => h_rec.hit /\ h_rec.t = LargeRoot(s, h_ray)
                  /\ ~inRange(SmallRoot(s, h_ray)) /\ ~inRange(LargeRoot(s, h_ray))
                        => ~h_rec.hit
            /\ h_rec.hit <=> near # {}
            /\ h_rec.hit =>
                  /\ inRange(h_rec.t)
                  /\ h_rec.t \in near
                  /\ \A t \in near : RLe(h_rec.t, t)
                  /\ h_rec.p = At(h_ray, h_rec.t)

C5_Witness ==
    /\ h_call = "sphere"
    /\ h_rec.hit
    /\ h_rec.t = LargeRoot(h_world[h_idx], h_ray)
    /\ RLt(SmallRoot(h_world[h_idx], h_ray), h_tmin)
    /\ Cardinality(Intersections(h_world[h_idx], h_ray, R(-TRange), INFINITY)) = 2

\* C6: ray_color with depth 0 returns exactly black without testing the
\* scene; for any depth d it makes at most d scene hit tests, every
\* recursive call is made with depth - 1, and the call terminates.
C6_DepthInvariant ==
    /\ max_depth = 0 /\ rc_pc \in {"return", "done"}
          => rc_ret = Black /\ rc_hits = 0
    /\ rc_hits <= max_depth
    /\ Len(rc_stack) <= max_depth + 1
    /\ \A k \in 1 .. Len(rc_stack) : rc_stack[k].depth = max_depth - (k - 1)
    /\ rc_pc = "done" => rc_stack = <<>>

C6_DepthBoundedRecursion == []C6_DepthInvariant /\ <>(rc_pc = "done")

C6_Witness ==
    /\ rc_pc = "done"
    /\ max_depth = 3
    /\ rc_hits = 3
    /\ rc_ret = Black

DielectricOut == m_pc = "scattered" /\ m_out.kind \in {"reflect", "refract"}

\* C7: the dielectric law uses refraction ratio 1/ior when the record the
\* surface's hit produced is a front-face hit and ior otherwise.
C7_RefractionRatioByFace ==
    DielectricOut =>
        m_out.refraction_ratio =
            IF m_rec.front_face THEN RDiv(R(1), m_obj.material.ir)
            ELSE m_obj.material.ir

\* C8: the fuzz every Metal material stores and scatters with is in [0, 1].
C8_MetalFuzzClamped ==
    m_pc = "scattered" /\ m_out.kind = "metal"
        => RLe(R(0), m_out.fuzz) /\ RLe(m_out.fuzz, R(1))

Schlick(cos_theta, ior) ==
    LET r0 == RPow(RDiv(RSub(R(1), ior), RAdd(R(1), ior)), 2)
    IN  RAdd(r0, RMul(RSub(R(1), r0), RPow(RSub(R(1), cos_theta), 5)))

\* C9: the reflectance deciding reflect-versus-refract is Schlick's
\* r0 + (1 - r0)(1 - cos_theta)^5 with r0 = ((1 - ior)/(1 + ior))^2, never
\* above 1, and the ray is reflected iff total internal reflection holds or
\* the uniform draw is less than it.
C9_SchlickReflectance ==
    DielectricOut =>
        LET schlick == Schlick(m_out.cos_theta, m_obj.material.ir)
        IN  /\ m_out.reflectance = schlick
            /\ RLe(m_out.reflectance, R(1))
            /\ (m_out.kind = "reflect")
                  <=> (m_out.cannot_refract \/ RLt(m_out.draw, schlick))

====
